---------------------------- MODULE Spec2Model ----------------------------
(***************************************************************************)
(* A model of scripts/fetch_coolors_palettes.py: the three extraction      *)
(* strategies (API, embedded page data, headless browser), the fallback    *)
(* catalog, the orchestration in main, and the three formatters.           *)
(*                                                                         *)
(* Text is modelled as sequences of one-character strings, so that the     *)
(* regular expressions, str.split, str.upper and the slicing of the        *)
(* source are computed the way Python computes them.                       *)
(***************************************************************************)
EXTENDS Integers, Sequences, FiniteSets, TLC

(***************************************************************************)
(* Python text and list primitives                                         *)
(***************************************************************************)

Digits == <<"0", "1", "2", "3", "4", "5", "6", "7", "8", "9">>

DigitChars == {Digits[i] : i \in 1..10}

UpperHexLetters == {"A", "B", "C", "D", "E", "F"}

LowerHexLetters == {"a", "b", "c", "d", "e", "f"}

\* the character class [a-fA-F0-9]
HexChars == DigitChars \cup UpperHexLetters \cup LowerHexLetters

\* the character class [a-fA-F0-9-]
HexDashChars == HexChars \cup {"-"}

\* the character class \s (the blanks the modelled texts use)
SpaceChars == {" "}

\* str.upper() on one character
UpperChar(ch) ==
    CASE ch = "a" -> "A" [] ch = "b" -> "B" [] ch = "c" -> "C"
      [] ch = "d" -> "D" [] ch = "e" -> "E" [] ch = "f" -> "F"
      [] ch = "g" -> "G" [] ch = "h" -> "H" [] ch = "i" -> "I"
      [] ch = "j" -> "J" [] ch = "k" -> "K" [] ch = "l" -> "L"
      [] ch = "m" -> "M" [] ch = "n" -> "N" [] ch = "o" -> "O"
      [] ch = "p" -> "P" [] ch = "q" -> "Q" [] ch = "r" -> "R"
      [] ch = "s" -> "S" [] ch = "t" -> "T" [] ch = "u" -> "U"
      [] ch = "v" -> "V" [] ch = "w" -> "W" [] ch = "x" -> "X"
      [] ch = "y" -> "Y" [] ch = "z" -> "Z"
      [] OTHER -> ch

\* str.lower() on one character
LowerChar(ch) ==
    CASE ch = "A" -> "a" [] ch = "B" -> "b" [] ch = "C" -> "c"
      [] ch = "D" -> "d" [] ch = "E" -> "e" [] ch = "F" -> "f"
      [] ch = "G" -> "g" [] ch = "H" -> "h" [] ch = "I" -> "i"
      [] ch = "J" -> "j" [] ch = "K" -> "k" [] ch = "L" -> "l"
      [] ch = "M" -> "m" [] ch = "N" -> "n" [] ch = "O" -> "o"
      [] ch = "P" -> "p" [] ch = "Q" -> "q" [] ch = "R" -> "r"
      [] ch = "S" -> "s" [] ch = "T" -> "t" [] ch = "U" -> "u"
      [] ch = "V" -> "v" [] ch = "W" -> "w" [] ch = "X" -> "x"
      [] ch = "Y" -> "y" [] ch = "Z" -> "z"
      [] OTHER -> ch

\* str.upper()
Upper(s) == [i \in 1..Len(s) |-> UpperChar(s[i])]

\* str.lower()
Lower(s) == [i \in 1..Len(s) |-> LowerChar(s[i])]

\* str.replace(old, new) for a one-character old and a text new
RECURSIVE ReplaceChar(_, _, _)
ReplaceChar(s, old, new) ==
    IF s = <<>> THEN <<>>
    ELSE (IF Head(s) = old THEN new ELSE <<Head(s)>>)
         \o ReplaceChar(Tail(s), old, new)

\* a slice that keeps one element too many
PySliceOneMore(s, n) ==
    IF n >= 0
    THEN SubSeq(s, 1, IF n + 1 < Len(s) THEN n + 1 ELSE Len(s))
    ELSE SubSeq(s, 1, IF Len(s) + n + 1 > 0 THEN Len(s) + n + 1 ELSE 0)

\* s[:n] of Python, for any integer n: a negative n counts from the end
PySlice(s, n) ==
    IF n >= 0
    THEN SubSeq(s, 1, IF n < Len(s) THEN n ELSE Len(s))
    ELSE SubSeq(s, 1, IF Len(s) + n > 0 THEN Len(s) + n ELSE 0)

\* whether the text pat stands in s at position i
MatchesAt(s, i, pat) ==
    /\ i >= 1
    /\ i + Len(pat) - 1 <= Len(s)
    /\ \A k \in 1..Len(pat) : s[i + k - 1] = pat[k]

\* the Python test `pat in s`
Contains(s, pat) == \E i \in 1..(Len(s) + 1) : MatchesAt(s, i, pat)

\* str.split(sep) for a one-character sep: n separators give n + 1 pieces
RECURSIVE SplitFrom(_, _, _)
SplitFrom(s, sep, cur) ==
    IF s = <<>> THEN <<cur>>
    ELSE IF Head(s) = sep THEN <<cur>> \o SplitFrom(Tail(s), sep, <<>>)
    ELSE SplitFrom(Tail(s), sep, Append(cur, Head(s)))

Split(s, sep) == SplitFrom(s, sep, <<>>)

\* sep.join(parts)
RECURSIVE Join(_, _)
Join(parts, sep) ==
    IF parts = <<>> THEN <<>>
    ELSE IF Len(parts) = 1 THEN parts[1]
    ELSE parts[1] \o sep \o Join(Tail(parts), sep)

\* the length of the longest run of characters of class cls starting at s[i]
RECURSIVE RunLen(_, _, _)
RunLen(s, i, cls) ==
    IF i <= Len(s) /\ s[i] \in cls THEN 1 + RunLen(s, i + 1, cls) ELSE 0

\* exactly n characters of class cls stand at s[i]
ClassAt(s, i, cls, n) ==
    /\ i + n - 1 <= Len(s)
    /\ \A k \in 0..(n - 1) : s[i + k] \in cls

\* the least element of a non-empty set of integers
MinOf(S) == CHOOSE i \in S : \A j \in S : i <= j

\* f"#{c.upper()}"
HashUpper(c) == <<"#">> \o Upper(c)

\* [f"#{c.upper()}" for c in colors]
HashUpperAll(colors) == [i \in 1..Len(colors) |-> HashUpper(colors[i])]

\* the Python test `x in lst`
InList(x, lst) == \E i \in 1..Len(lst) : lst[i] = x

(***************************************************************************)
(* The regular expressions of the source                                   *)
(***************************************************************************)

PalettePath == <<"/", "p", "a", "l", "e", "t", "t", "e", "/">>

CoolorsHost == <<"c", "o", "o", "l", "o", "r", "s", ".", "c", "o">>

RgbOpen == <<"r", "g", "b", "(">>

\* the number of hex digits in one color of a palette URL ({6} in the patterns)
HexLen == 6

\* re.search(r'/palette/([a-fA-F0-9-]+)', href): group(1) of the leftmost
\* match, or the empty text when nothing matches (a match is never empty)
LooseSearch(href) ==
    LET hits == {i \in 1..Len(href) :
                    /\ MatchesAt(href, i, PalettePath)
                    /\ RunLen(href, i + Len(PalettePath), HexDashChars) >= 1}
    IN  IF hits = {} THEN <<>>
        ELSE LET i == MinOf(hits)
                 b == i + Len(PalettePath)
             IN  SubSeq(href, b, b + RunLen(href, b, HexDashChars) - 1)

\* the length matched by (?:-[a-fA-F0-9]{6})* at s[j], greedily
RECURSIVE GroupsLen(_, _)
GroupsLen(s, j) ==
    IF j <= Len(s) /\ s[j] = "-" /\ ClassAt(s, j + 1, HexChars, HexLen)
    THEN (HexLen + 1) + GroupsLen(s, j + HexLen + 1)
    ELSE 0

\* the length of group(1) of /palette/([a-fA-F0-9]{6}(?:-[a-fA-F0-9]{6})+)
\* matched at s[i], or 0 when the pattern does not match there
StrictLenAt(s, i) ==
    LET b == i + Len(PalettePath)
    IN  IF /\ MatchesAt(s, i, PalettePath)
           /\ ClassAt(s, b, HexChars, HexLen)
           /\ GroupsLen(s, b + HexLen) > 0
        THEN HexLen + GroupsLen(s, b + HexLen)
        ELSE 0

\* re.search of the strict pattern: group(1) of the leftmost match, or <<>>
StrictSearch(s) ==
    LET hits == {i \in 1..Len(s) : StrictLenAt(s, i) > 0}
    IN  IF hits = {} THEN <<>>
        ELSE LET i == MinOf(hits)
                 b == i + Len(PalettePath)
             IN  SubSeq(s, b, b + StrictLenAt(s, i) - 1)

\* re.findall of the strict pattern from position i on: the group(1) of every
\* non-overlapping match, left to right
RECURSIVE StrictFindAllFrom(_, _)
StrictFindAllFrom(s, i) ==
    IF i > Len(s) THEN <<>>
    ELSE IF StrictLenAt(s, i) > 0
    THEN LET b == i + Len(PalettePath)
             e == b + StrictLenAt(s, i)
         IN  <<SubSeq(s, b, e - 1)>> \o StrictFindAllFrom(s, e)
    ELSE StrictFindAllFrom(s, i + 1)

StrictFindAll(s) == StrictFindAllFrom(s, 1)

\* re.search(r'#([a-fA-F0-9]{6})', style): group(1), or <<>>
StyleHexSearch(style) ==
    LET hits == {i \in 1..Len(style) :
                    style[i] = "#" /\ ClassAt(style, i + 1, HexChars, HexLen)}
    IN  IF hits = {} THEN <<>>
        ELSE SubSeq(style, MinOf(hits) + 1, MinOf(hits) + HexLen)

\* the value of a decimal digit
DigitVal(ch) == (CHOOSE k \in 1..10 : Digits[k] = ch) - 1

\* int(text) for a text of decimal digits
RECURSIVE ToInt(_)
ToInt(ds) ==
    IF ds = <<>> THEN 0
    ELSE 10 * ToInt(SubSeq(ds, 1, Len(ds) - 1)) + DigitVal(ds[Len(ds)])

\* rgb\((\d+),\s*(\d+),\s*(\d+)\) matched at style[i]: the three numbers,
\* or <<>> when the pattern does not match there
RgbAt(style, i) ==
    LET p1 == i + Len(RgbOpen)
        d1 == RunLen(style, p1, DigitChars)
        c1 == p1 + d1
        p2 == c1 + 1 + RunLen(style, c1 + 1, SpaceChars)
        d2 == RunLen(style, p2, DigitChars)
        c2 == p2 + d2
        p3 == c2 + 1 + RunLen(style, c2 + 1, SpaceChars)
        d3 == RunLen(style, p3, DigitChars)
        c3 == p3 + d3
    IN  IF /\ MatchesAt(style, i, RgbOpen)
           /\ d1 >= 1 /\ MatchesAt(style, c1, <<",">>)
           /\ d2 >= 1 /\ MatchesAt(style, c2, <<",">>)
           /\ d3 >= 1 /\ MatchesAt(style, c3, <<")">>)
        THEN << ToInt(SubSeq(style, p1, c1 - 1)),
                ToInt(SubSeq(style, p2, c2 - 1)),
                ToInt(SubSeq(style, p3, c3 - 1)) >>
        ELSE <<>>

\* re.search of the rgb pattern: the three numbers of the leftmost match, or <<>>
RgbSearch(style) ==
    LET hits == {i \in 1..Len(style) : RgbAt(style, i) # <<>>}
    IN  IF hits = {} THEN <<>> ELSE RgbAt(style, MinOf(hits))

HexDigitOf(n) == IF n < 10 THEN Digits[n + 1]
                 ELSE <<"A", "B", "C", "D", "E", "F">>[n - 9]

\* format(n, "X"): upper-case hexadecimal with no padding
RECURSIVE HexOf(_)
HexOf(n) == IF n < 16 THEN <<HexDigitOf(n)>>
            ELSE HexOf(n \div 16) \o <<HexDigitOf(n % 16)>>

\* format(n, "02X"): at least two digits, zero padded, never cut
Hex02(n) == IF n < 16 THEN <<"0">> \o HexOf(n) ELSE HexOf(n)

\* f"#{r:02X}{g:02X}{b:02X}"
RgbToHex(rgb) == <<"#">> \o Hex02(rgb[1]) \o Hex02(rgb[2]) \o Hex02(rgb[3])

(***************************************************************************)
(* Formatters.  A formatter's result is the list of the lines it joins     *)
(* with '\n'.  format_hex lines are texts.  A line of format_android_xml   *)
(* is a record naming what the line is: for a <color> line, the text of    *)
(* its name attribute and the text of its value.  format_json's result is  *)
(* the palette list it serialises.                                         *)
(***************************************************************************)

\* str(n) for a natural number
RECURSIVE DecimalOf(_)
DecimalOf(n) == IF n < 10 THEN <<Digits[n + 1]>>
                ELSE DecimalOf(n \div 10) \o <<Digits[(n % 10) + 1]>>

DefaultNames ==
    <<
       <<"T", "h", "e", "m", "e", "_", "A">>,
       <<"T", "h", "e", "m", "e", "_", "B">>,
       <<"T", "h", "e", "m", "e", "_", "C">>,
       <<"T", "h", "e", "m", "e", "_", "D">>,
       <<"T", "h", "e", "m", "e", "_", "E">>,
       <<"T", "h", "e", "m", "e", "_", "F">>,
       <<"T", "h", "e", "m", "e", "_", "G">>,
       <<"T", "h", "e", "m", "e", "_", "H">>,
       <<"T", "h", "e", "m", "e", "_", "I">>,
       <<"T", "h", "e", "m", "e", "_", "J">>
    >>

ColorRoles ==
    <<
       <<"p", "r", "i", "m", "a", "r", "y">>,
       <<"s", "e", "c", "o", "n", "d", "a", "r", "y">>,
       <<"t", "e", "r", "t", "i", "a", "r", "y">>,
       <<"a", "c", "c", "e", "n", "t">>,
       <<"h", "i", "g", "h", "l", "i", "g", "h", "t">>
    >>

\* the number of colors of a palette the Android formatter emits (palette[:5])
MaxRoles == 5

\* the length at which a color gets the opaque alpha prefix
RgbDigits == 6

\* a formatter that names every palette after the first default name
ThemeNameFirst(i, theme_names) == DefaultNames[1]

\* name = theme_names[i] if theme_names and i < len(theme_names)
\*        else default_names[i % len(default_names)]      (i is 0-based)
ThemeName(i, theme_names) ==
    IF theme_names # <<>> /\ i < Len(theme_names)
    THEN theme_names[i + 1]
    ELSE DefaultNames[(i % Len(DefaultNames)) + 1]

\* name.lower().replace(' ', '_')
NameLower(name) == ReplaceChar(Lower(name), " ", <<"_">>)

\* role = color_roles[j] if j < len(color_roles) else f'color_{j+1}'
RoleName(j) ==
    IF j < Len(ColorRoles) THEN ColorRoles[j + 1]
    ELSE <<"c", "o", "l", "o", "r", "_">> \o DecimalOf(j + 1)

\* a formatter that prepends the alpha prefix whatever the length
AlphaHexAlways(color) == <<"F", "F">> \o ReplaceChar(Upper(color), "#", <<>>)

\* hex_color = color.upper().replace('#', '')
\* if len(hex_color) == 6: hex_color = f"FF{hex_color}"
AlphaHex(color) ==
    LET hex_color == ReplaceChar(Upper(color), "#", <<>>)
    IN  IF Len(hex_color) = RgbDigits THEN <<"F", "F">> \o hex_color
        ELSE hex_color

\* the <color> line of color j of palette i (both 0-based)
ColorLine(i, j, color, theme_names) ==
    [kind  |-> "color",
     name  |-> NameLower(ThemeName(i, theme_names)) \o <<"_">> \o RoleName(j),
     value |-> <<"#">> \o AlphaHex(color)]

NoText == <<>>

CommentLine(name) == [kind |-> "comment", name |-> name, value |-> NoText]

PlainLine(kind) == [kind |-> kind, name |-> NoText, value |-> NoText]

\* the lines format_android_xml appends for palette i (0-based)
PaletteLines(i, palette, theme_names) ==
    LET shown == PySlice(palette, MaxRoles)
    IN  <<CommentLine(ThemeName(i, theme_names))>>
        \o [j \in 1..Len(shown) |-> ColorLine(i, j - 1, shown[j], theme_names)]
        \o <<PlainLine("blank")>>

RECURSIVE AndroidBody(_, _, _)
AndroidBody(palettes, i, theme_names) ==
    IF i >= Len(palettes) THEN <<>>
    ELSE PaletteLines(i, palettes[i + 1], theme_names)
         \o AndroidBody(palettes, i + 1, theme_names)

format_android_xml(palettes, theme_names) ==
    <<PlainLine("xml_declaration"), PlainLine("resources_open"), PlainLine("blank")>>
    \o AndroidBody(palettes, 0, theme_names)
    \o <<PlainLine("resources_close")>>

format_json(palettes) == palettes

PaletteWord == <<"P", "a", "l", "e", "t", "t", "e", " ">>

\* f"Palette {i+1}: {' '.join(palette)}" for every palette, i 0-based
format_hex(palettes) ==
    [k \in 1..Len(palettes) |->
        PaletteWord \o DecimalOf(k) \o <<":", " ">> \o Join(palettes[k], <<" ">>)]

(***************************************************************************)
(* The fallback catalog                                                    *)
(***************************************************************************)

Hx(a, b, c, d, e, f) == <<"#", a, b, c, d, e, f>>

FallbackCatalog ==
    <<
       << Hx("2", "6", "4", "6", "5", "3"),
          Hx("2", "A", "9", "D", "8", "F"),
          Hx("E", "9", "C", "4", "6", "A"),
          Hx("F", "4", "A", "2", "6", "1"),
          Hx("E", "7", "6", "F", "5", "1") >>,
       << Hx("6", "0", "6", "C", "3", "8"),
          Hx("2", "8", "3", "6", "1", "8"),
          Hx("F", "E", "F", "A", "E", "0"),
          Hx("D", "D", "A", "1", "5", "E"),
          Hx("B", "C", "6", "C", "2", "5") >>,
       << Hx("0", "0", "3", "0", "4", "9"),
          Hx("D", "6", "2", "8", "2", "8"),
          Hx("F", "7", "7", "F", "0", "0"),
          Hx("F", "C", "B", "F", "4", "9"),
          Hx("E", "A", "E", "2", "B", "7") >>,
       << Hx("0", "D", "1", "B", "2", "A"),
          Hx("1", "B", "2", "6", "3", "B"),
          Hx("4", "1", "5", "A", "7", "7"),
          Hx("7", "7", "8", "D", "A", "9"),
          Hx("E", "0", "E", "1", "D", "D") >>,
       << Hx("F", "F", "B", "E", "0", "B"),
          Hx("F", "B", "5", "6", "0", "7"),
          Hx("F", "F", "0", "0", "6", "E"),
          Hx("8", "3", "3", "8", "E", "C"),
          Hx("3", "A", "8", "6", "F", "F") >>,
       << Hx("2", "B", "2", "D", "4", "2"),
          Hx("8", "D", "9", "9", "A", "E"),
          Hx("E", "D", "F", "2", "F", "4"),
          Hx("E", "F", "2", "3", "3", "C"),
          Hx("D", "9", "0", "4", "2", "9") >>,
       << Hx("F", "7", "2", "5", "8", "5"),
          Hx("7", "2", "0", "9", "B", "7"),
          Hx("3", "A", "0", "C", "A", "3"),
          Hx("4", "3", "6", "1", "E", "E"),
          Hx("4", "C", "C", "9", "F", "0") >>,
       << Hx("0", "A", "0", "9", "0", "8"),
          Hx("2", "2", "3", "3", "3", "B"),
          Hx("E", "A", "E", "0", "D", "5"),
          Hx("C", "6", "A", "C", "8", "F"),
          Hx("5", "E", "5", "0", "3", "F") >>,
       << Hx("1", "A", "5", "3", "5", "C"),
          Hx("4", "E", "C", "D", "C", "4"),
          Hx("F", "7", "F", "F", "F", "7"),
          Hx("F", "F", "6", "B", "6", "B"),
          Hx("F", "F", "E", "6", "6", "D") >>,
       << Hx("5", "8", "2", "F", "0", "E"),
          Hx("7", "F", "4", "F", "2", "4"),
          Hx("9", "3", "6", "6", "3", "9"),
          Hx("A", "6", "8", "A", "6", "4"),
          Hx("B", "6", "A", "D", "9", "0") >>
    >>

(***************************************************************************)
(* Python values.  A list is a sequence and a text a sequence of           *)
(* characters; a value whose type the code tests, or that need not be a    *)
(* list, carries its type in t.                                            *)
(***************************************************************************)

PyList(xs) == [t |-> "list", v |-> xs]

\* a dict, v: its keys to its values
PyDict(f) == [t |-> "dict", v |-> f]

PyStr(cs) == [t |-> "str", v |-> cs]

PyNum(n) == [t |-> "num", v |-> n]

EmptyDict == <<>>

\* bool(x): an empty list, dict or text and the number 0 are false
Truthy(x) ==
    CASE x.t = "list" -> x.v # <<>>
      [] x.t = "str"  -> x.v # <<>>
      [] x.t = "dict" -> DOMAIN x.v # {}
      [] x.t = "num"  -> x.v # 0
      [] OTHER        -> FALSE

(***************************************************************************)
(* parse_page_data.  The page is html = [blob, text]: blob is what         *)
(* base64-decoding and json.loads make of the page_data_encoded variable   *)
(* (t = "absent": the variable is not in the page; t = "invalid": decoding *)
(* or parsing raises), text is the page text the URL pattern is run on.    *)
(***************************************************************************)

BlobKeys == <<"palettes", "items", "data", "results">>

\* what one item of a list contributes: item['colors'] as it is for a dict
\* with a colors key, the '#'-prefixed upper-cased pieces for a text with a '-'
ItemPalettes(item) ==
    IF item.t = "dict" /\ "colors" \in DOMAIN item.v THEN <<item.v.colors>>
    ELSE IF item.t = "str" /\ Contains(item.v, <<"-">>)
    THEN <<HashUpperAll(Split(item.v, "-"))>>
    ELSE <<>>

RECURSIVE ItemsPalettes(_)
ItemsPalettes(items) ==
    IF items = <<>> THEN <<>>
    ELSE ItemPalettes(Head(items)) \o ItemsPalettes(Tail(items))

\* for key in [...]: if key in data and isinstance(data[key], list): ...
RECURSIVE KeysPalettes(_, _)
KeysPalettes(data, keys) ==
    IF keys = <<>> THEN <<>>
    ELSE (IF Head(keys) \in DOMAIN data /\ data[Head(keys)].t = "list"
          THEN ItemsPalettes(data[Head(keys)].v) ELSE <<>>)
         \o KeysPalettes(data, Tail(keys))

\* the palettes taken from the decoded blob (nothing when the variable is
\* absent, when decoding raises, or when the data is not a dict)
BlobPalettes(blob) ==
    IF blob.t = "dict" THEN KeysPalettes(blob.v, BlobKeys) ELSE <<>>

\* a scan that appends every URL it finds
NotListedAlways(colors, palettes) == TRUE

\* the test `colors not in palettes` guarding the append of a scanned URL
NotListed(colors, palettes) == ~InList(colors, palettes)

\* for url_colors in palette_urls: append the colors unless already listed
RECURSIVE AppendUrlPalettes(_, _)
AppendUrlPalettes(palettes, urls) ==
    IF urls = <<>> THEN palettes
    ELSE LET colors == HashUpperAll(Split(Head(urls), "-"))
         IN  AppendUrlPalettes(
                 IF NotListed(colors, palettes) THEN Append(palettes, colors)
                 ELSE palettes,
                 Tail(urls))

\* the palettes of the /palette/ URLs of the page text, in order
UrlPalettes(text) ==
    LET urls == StrictFindAll(text)
    IN  [k \in 1..Len(urls) |-> HashUpperAll(Split(urls[k], "-"))]

parse_page_data(html) ==
    AppendUrlPalettes(BlobPalettes(html.blob), StrictFindAll(html.text))

(***************************************************************************)
(* fetch_with_selenium: the extraction from the rendered page.  An element *)
(* is [href, data, styles, stale]: its href and data-palette attributes    *)
(* (the empty text for a missing one), the style attributes of its         *)
(* children with a background style, and whether reading it raises (a      *)
(* stale element).                                                         *)
(***************************************************************************)

\* the least number of colors for an element to give a palette
MinColors == 3

\* the color of one swatch style: the 6-digit hex color when there is one,
\* else the rgb() triple in hex, else none
StyleColors(style) ==
    IF StyleHexSearch(style) # <<>> THEN <<HashUpper(StyleHexSearch(style))>>
    ELSE IF RgbSearch(style) # <<>> THEN <<RgbToHex(RgbSearch(style))>>
    ELSE <<>>

RECURSIVE SwatchColors(_)
SwatchColors(styles) ==
    IF styles = <<>> THEN <<>>
    ELSE StyleColors(Head(styles)) \o SwatchColors(Tail(styles))

\* the palette of the element's href, or <<>> when that step does not `continue`
HrefPalette(href) ==
    IF Contains(href, PalettePath) /\ LooseSearch(href) # <<>>
       /\ Len(Split(LooseSearch(href), "-")) >= MinColors
    THEN HashUpperAll(Split(LooseSearch(href), "-"))
    ELSE <<>>

\* the palette of the element's data-palette attribute, or <<>>
DataPalette(data) ==
    IF data # <<>> /\ Len(Split(data, "-")) >= MinColors
    THEN HashUpperAll(Split(data, "-"))
    ELSE <<>>

\* the palette of the element's swatches, or <<>>
SwatchPalette(styles) ==
    IF styles # <<>> /\ Len(SwatchColors(styles)) >= MinColors
    THEN SwatchColors(styles)
    ELSE <<>>

\* the body of `for element in palette_elements[:count]`: the palettes one
\* element appends (none when reading it raises: the error is printed and
\* the loop continues)
ElementPalettes(element) ==
    IF element.stale THEN <<>>
    ELSE IF HrefPalette(element.href) # <<>> THEN <<HrefPalette(element.href)>>
    ELSE IF DataPalette(element.data) # <<>> THEN <<DataPalette(element.data)>>
    ELSE IF SwatchPalette(element.styles) # <<>> THEN <<SwatchPalette(element.styles)>>
    ELSE <<>>

RECURSIVE ElementsPalettes(_)
ElementsPalettes(elements) ==
    IF elements = <<>> THEN <<>>
    ELSE ElementPalettes(Head(elements)) \o ElementsPalettes(Tail(elements))

\* palette_elements: the elements of the first selector that finds any
RECURSIVE FirstNonEmpty(_)
FirstNonEmpty(found) ==
    IF found = <<>> THEN <<>>
    ELSE IF Head(found) # <<>> THEN Head(found)
    ELSE FirstNonEmpty(Tail(found))

\* the test `palette not in palettes` of the alternative scan
NotFound(palette, palettes) == ~InList(palette, palettes)

\* the alternative scan over all links, from the palettes found so far:
\* [palettes, raised], raised when reading a link raised, which leaves the
\* loop with the palettes appended before it
RECURSIVE AltScan(_, _, _)
AltScan(links, count, palettes) ==
    IF links = <<>> THEN [palettes |-> palettes, raised |-> FALSE]
    ELSE IF Head(links).stale THEN [palettes |-> palettes, raised |-> TRUE]
    ELSE LET href == Head(links).href
             m == IF Contains(href, PalettePath) /\ Contains(href, CoolorsHost)
                  THEN StrictSearch(href) ELSE <<>>
             palette == HashUpperAll(Split(m, "-"))
         IN  IF m # <<>> /\ NotFound(palette, palettes)
             THEN IF Len(palettes) + 1 >= count
                  THEN [palettes |-> Append(palettes, palette), raised |-> FALSE]
                  ELSE AltScan(Tail(links), count, Append(palettes, palette))
             ELSE AltScan(Tail(links), count, palettes)

(***************************************************************************)
(* The inputs the program meets: command lines, API responses, pages.      *)
(***************************************************************************)

\* the greatest --count tried besides the default, and the least (negated)
MaxCount == 2

MaxNegCount == 1

\* the default of --count
DefaultCount == 10

Counts == ((0 - MaxNegCount)..MaxCount) \cup {DefaultCount}

Methods == {"selenium", "api", "auto"}

Formats == {"android", "json", "hex"}

Args == [method : Methods, format : Formats, count : Counts]

hAB == <<"a", "a", "b", "b", "c", "c">>

hDE == <<"D", "D", "E", "E", "F", "F">>

h12 == <<"1", "1", "2", "2", "3", "3">>

h0f == <<"0", "0", "9", "9", "f", "F">>

Run2(x, y) == x \o <<"-">> \o y

Run3(x, y, z) == x \o <<"-">> \o y \o <<"-">> \o z

\* canonical palettes, as an extraction that normalises would give them
PalA == <<HashUpper(hAB), HashUpper(hDE), HashUpper(h12)>>

PalB == <<HashUpper(h12), HashUpper(h0f), HashUpper(hAB)>>

PalC == <<HashUpper(hDE), HashUpper(h12)>>

\* a palette as a remote JSON document may spell it
PalLower == <<<<"#">> \o hAB, <<"#">> \o h0f, <<"#">> \o h12>>

\* the two endpoints of fetch_from_api, in the listed order
Endpoints == <<"api/palettes/trending", "api/explore/trending">>

\* the bodies a 200 response may parse to
ApiBodies ==
    { PyList(<<>>),
      PyList(<<PalA, PalB, PalC>>),
      PyList(<<PalLower>>),
      PyDict([error |-> PyStr(<<"n", "o">>)]),
      PyDict(EmptyDict) }

\* what one request to an endpoint may end in
ApiOutcomes ==
    [kind : {"raises", "not_200", "bad_json"}, body : {PyList(<<>>)}]
    \cup [kind : {"ok"}, body : ApiBodies]

Href(run) == <<"/", "/">> \o CoolorsHost \o PalettePath \o run

Anchor(run) == <<"<", "a", " ">> \o PalettePath \o run \o <<">">>

AbsentBlob == [t |-> "absent", v |-> <<>>]

InvalidBlob == [t |-> "invalid", v |-> <<>>]

NoHtml == [blob |-> AbsentBlob, text |-> <<>>]

\* the pages the page-data strategy may be served
PageHtmls ==
    { NoHtml,
      [blob |-> InvalidBlob,
       text |-> Anchor(Run3(hAB, hDE, h12)) \o Anchor(Run2(hDE, h12))
                \o Anchor(Run3(Upper(hAB), hDE, h12))],
      [blob |-> PyDict([palettes |-> PyList(<< PyDict([colors |-> PalB]),
                                               PyStr(Run2(hDE, h12)),
                                               PyStr(hAB),
                                               PyDict([id |-> PyNum(1)]) >>),
                        items    |-> PyStr(Run2(hAB, hDE)),
                        results  |-> PyList(<<PyStr(Run3(hAB, hDE, h12))>>)]),
       text |-> Anchor(Run2(hDE, h12)) \o Anchor(Run2(h12, hDE))],
      [blob |-> PyDict([data |-> PyList(<< PyStr(Run2(hDE, h12)),
                                           PyStr(Run2(hDE, h12)) >>)]),
       text |-> Anchor(Run2(hDE, h12))],
      [blob |-> PyDict([items |-> PyList(<< PyDict([colors |-> PalLower]),
                                            PyStr(<<"a", "b", "-", "c">>) >>)]),
       text |-> <<>>],
      [blob |-> PyList(<<PyStr(Run2(hAB, hDE))>>),
       text |-> Anchor(<<"x">>) \o Anchor(Run2(hAB, <<"1", "2", "3">>))] }

NoAttr == <<>>

Element(href, data, styles) ==
    [href |-> href, data |-> data, styles |-> styles, stale |-> FALSE]

StaleElement == [href |-> NoAttr, data |-> NoAttr, styles |-> <<>>, stale |-> TRUE]

Link(href) == [href |-> href, stale |-> FALSE]

StaleLink == [href |-> NoAttr, stale |-> TRUE]

StyleHex(h) == <<"b", "g", ":", "#">> \o h

StyleRgb(r, g, b) ==
    RgbOpen \o DecimalOf(r) \o <<",", " ">> \o DecimalOf(g) \o <<",">>
    \o DecimalOf(b) \o <<")">>

StyleNone == <<"b", "g", ":", "u", "r", "l">>

NoDom == [found |-> << <<>>, <<>>, <<>>, <<>>, <<>> >>, links |-> <<>>]

\* the rendered pages: what each of the five selectors finds, and the links
Doms ==
    { NoDom,
      [found |-> << <<>>,
                    << Element(Href(Run3(hAB, hDE, h12)), NoAttr, <<>>),
                       StaleElement,
                       Element(Href(Run2(hAB, hDE)), Run3(h12, hAB, h0f), <<>>),
                       Element(NoAttr, NoAttr,
                               <<StyleHex(hAB), StyleNone, StyleRgb(38, 70, 83),
                                 StyleRgb(0, 15, 255)>>) >>,
                    <<>>, <<>>, <<>> >>,
       links |-> <<>>],
      [found |-> << << Element(Href(<<"a", "b", "c", "-", "d", "e", "-", "f">>),
                               NoAttr, <<>>) >>,
                    << Element(Href(Run3(hAB, hDE, h12)), NoAttr, <<>>) >>,
                    <<>>, <<>>, <<>> >>,
       links |-> <<>>],
      [found |-> << <<>>, <<>>,
                    << Element(NoAttr, <<"r", "e", "d", "-", "-", "x">>, <<>>),
                       Element(NoAttr, NoAttr,
                               <<StyleRgb(300, 0, 0), StyleHex(h12), StyleHex(hDE)>>) >>,
                    <<>>, <<>> >>,
       links |-> <<>>],
      [found |-> << <<>>, <<>>, <<>>, <<>>,
                    << Element(Href(Run2(hAB, hDE)), NoAttr, <<StyleHex(hAB)>>) >> >>,
       links |-> << Link(Href(Run2(hAB, hDE))),
                    Link(PalettePath \o Run2(h12, hDE)),
                    Link(Href(Run2(Upper(hAB), hDE))),
                    Link(Href(Run3(h12, hDE, h0f))),
                    Link(Href(Run2(hAB, hDE))),
                    Link(Href(Run2(hDE, hAB))) >>],
      [found |-> << <<>>, <<>>, <<>>, <<>>, <<>> >>,
       links |-> << Link(Href(Run2(hDE, h12))),
                    StaleLink,
                    Link(Href(Run2(h12, hDE))) >>] }

(***************************************************************************)
(* The program: one run of main.                                           *)
(***************************************************************************)

VARIABLES
    args,         \* the parsed command line, but for --output
    pc,           \* where the run stands
    palettes,     \* main's palettes
    ran,          \* the strategies run so far, each with what it left in palettes
    result,       \* the formatter's result
    written,      \* where the result was written: "stdout", "file", or "nothing"
    endpoint,     \* fetch_from_api: the index of the endpoint to try next
    contacted,    \* fetch_from_api: the endpoints requested, each with its outcome
                  \* (body: what a 200 response parsed to)
    html,         \* the page handed to parse_page_data
    driver,       \* fetch_with_selenium: the session: "none", "open", "closed"
    quits,        \* the number of driver.quit() calls
    scrolls,      \* the scroll cycles done
    dom,          \* the page the browser rendered
    found,        \* fetch_with_selenium's palettes
    scanned       \* whether the alternative link scan ran

vars == << args, pc, palettes, ran, result, written, endpoint, contacted, html,
           driver, quits, scrolls, dom, found, scanned >>

apiVars == << endpoint, contacted >>

browserVars == << driver, quits, scrolls, dom, found, scanned >>

outVars == << result, written >>

NoResult == [format |-> "none", lines |-> <<>>]

Init ==
    /\ args \in Args
    /\ pc = "if_api"
    /\ palettes = PyList(<<>>)
    /\ ran = <<>>
    /\ result = NoResult
    /\ written = "nothing"
    /\ endpoint = 1
    /\ contacted = <<>>
    /\ html = NoHtml
    /\ driver = "none"
    /\ quits = 0
    /\ scrolls = 0
    /\ dom = NoDom
    /\ found = <<>>
    /\ scanned = FALSE

\* if args.method in ['api', 'auto']
UsesApi(method) == method \in {"api", "auto"}

\* a page-data test that forgets `not palettes`
UsesPageDataAlways(p, method) == method \in {"auto"}

\* if not palettes and args.method in ['auto']
UsesPageData(p, method) == ~Truthy(p) /\ method \in {"auto"}

\* if not palettes or args.method == 'selenium'
UsesBrowser(p, method) == ~Truthy(p) \/ method = "selenium"

\* a run that never falls back to the catalog
UsesFallbackNever(p) == FALSE

\* if not palettes (the fallback)
UsesFallback(p) == ~Truthy(p)

Ran(strategy, p) == Append(ran, [s |-> strategy, res |-> p])

----------------------------------------------------------------------------
\* fetch_from_api

ApiSkipped ==
    /\ pc = "if_api"
    /\ ~UsesApi(args.method)
    /\ pc' = "if_page"
    /\ UNCHANGED << args, palettes, ran, outVars, apiVars, html, browserVars >>

ApiEntered ==
    /\ pc = "if_api"
    /\ UsesApi(args.method)
    /\ pc' = "api"
    /\ endpoint' = 1
    /\ UNCHANGED << args, palettes, ran, outVars, contacted, html, browserVars >>

\* a loop that gives up at the first endpoint that gave nothing
AfterFailureGiveUp(i) == Len(Endpoints) + 1

\* where the loop goes after an endpoint that gave nothing: the next endpoint
AfterFailure(i) == i + 1

\* one iteration of `for endpoint in endpoints`: the request raises, or answers
\* another status than 200, or its body does not parse, and the loop goes on;
\* or its body parses and is returned
ApiRequest ==
    /\ pc = "api"
    /\ endpoint <= Len(Endpoints)
    /\ \E o \in ApiOutcomes :
        /\ contacted' = Append(contacted, [at |-> Endpoints[endpoint], kind |-> o.kind,
                                            body |-> o.body])
        /\ IF o.kind = "ok"
           THEN /\ palettes' = o.body
                /\ ran' = Ran("api", o.body)
                /\ pc' = "if_page"
                /\ UNCHANGED endpoint
           ELSE /\ endpoint' = AfterFailure(endpoint)
                /\ UNCHANGED << palettes, ran, pc >>
    /\ UNCHANGED << args, outVars, html, browserVars >>

\* the loop ended with no endpoint returning: return []
ApiExhausted ==
    /\ pc = "api"
    /\ endpoint > Len(Endpoints)
    /\ palettes' = PyList(<<>>)
    /\ ran' = Ran("api", PyList(<<>>))
    /\ pc' = "if_page"
    /\ UNCHANGED << args, outVars, apiVars, html, browserVars >>

----------------------------------------------------------------------------
\* the page-data strategy

PageSkipped ==
    /\ pc = "if_page"
    /\ ~UsesPageData(palettes, args.method)
    /\ pc' = "if_browser"
    /\ UNCHANGED << args, palettes, ran, outVars, apiVars, html, browserVars >>

\* requests.get raises: the error is printed and palettes stays as it was
PageRequestFails ==
    /\ pc = "if_page"
    /\ UsesPageData(palettes, args.method)
    /\ ran' = Ran("page", palettes)
    /\ pc' = "if_browser"
    /\ UNCHANGED << args, palettes, outVars, apiVars, html, browserVars >>

\* palettes = parse_page_data(response.text), whatever the response status
PageParsed ==
    /\ pc = "if_page"
    /\ UsesPageData(palettes, args.method)
    /\ \E h \in PageHtmls :
        /\ html' = h
        /\ palettes' = PyList(parse_page_data(h))
        /\ ran' = Ran("page", PyList(parse_page_data(h)))
    /\ pc' = "if_browser"
    /\ UNCHANGED << args, outVars, apiVars, browserVars >>

----------------------------------------------------------------------------
\* fetch_with_selenium(args.count)

\* the most scroll cycles, and the count that adds one cycle
MaxScrolls == 5

ScrollStep == 10

\* range(min(count // 10 + 1, 5)): the number of scroll cycles
ScrollCycles(count) ==
    LET n == (count \div ScrollStep) + 1
    IN  IF n < MaxScrolls THEN n ELSE MaxScrolls

\* an exception handler with no finally clause: straight to the return
AfterErrorNoFinally == "sel_return"

\* where an exception raised inside the try block leads: the handler prints
\* it, and the finally clause runs
AfterError == "sel_finally"

\* where the function stands after a return, in main
Returned(p) ==
    /\ palettes' = p
    /\ ran' = Ran("browser", p)
    /\ pc' = "if_fallback"

BrowserSkipped ==
    /\ pc = "if_browser"
    /\ ~UsesBrowser(palettes, args.method)
    /\ pc' = "if_fallback"
    /\ UNCHANGED << args, palettes, ran, outVars, apiVars, html, browserVars >>

BrowserEntered ==
    /\ pc = "if_browser"
    /\ UsesBrowser(palettes, args.method)
    /\ pc' = "sel_import"
    /\ UNCHANGED << args, palettes, ran, outVars, apiVars, html, browserVars >>

\* the selenium packages are missing: return []
SelImportFails ==
    /\ pc = "sel_import"
    /\ Returned(PyList(<<>>))
    /\ UNCHANGED << args, outVars, apiVars, html, browserVars >>

SelImported ==
    /\ pc = "sel_import"
    /\ pc' = "sel_launch"
    /\ UNCHANGED << args, palettes, ran, outVars, apiVars, html, browserVars >>

\* installing the driver or starting Chrome raises: return []
SelLaunchFails ==
    /\ pc = "sel_launch"
    /\ Returned(PyList(<<>>))
    /\ UNCHANGED << args, outVars, apiVars, html, browserVars >>

\* driver = webdriver.Chrome(...); palettes = []
SelLaunched ==
    /\ pc = "sel_launch"
    /\ driver' = "open"
    /\ found' = <<>>
    /\ pc' = "sel_get"
    /\ UNCHANGED << args, palettes, ran, outVars, apiVars, html, quits, scrolls,
                    dom, scanned >>

\* driver.get(...) and the wait
SelGet ==
    /\ pc = "sel_get"
    /\ \E d \in Doms : dom' = d
    /\ pc' = "sel_scroll"
    /\ UNCHANGED << args, palettes, ran, outVars, apiVars, html, driver, quits,
                    scrolls, found, scanned >>

SelGetRaises ==
    /\ pc = "sel_get"
    /\ pc' = AfterError
    /\ UNCHANGED << args, palettes, ran, outVars, apiVars, html, browserVars >>

\* one scroll cycle
SelScroll ==
    /\ pc = "sel_scroll"
    /\ scrolls < ScrollCycles(args.count)
    /\ scrolls' = scrolls + 1
    /\ UNCHANGED << args, pc, palettes, ran, outVars, apiVars, html, driver, quits,
                    dom, found, scanned >>

SelScrollRaises ==
    /\ pc = "sel_scroll"
    /\ scrolls < ScrollCycles(args.count)
    /\ pc' = AfterError
    /\ UNCHANGED << args, palettes, ran, outVars, apiVars, html, browserVars >>

\* the selector loop and the loop over palette_elements[:count]
SelExtract ==
    /\ pc = "sel_scroll"
    /\ scrolls >= ScrollCycles(args.count)
    /\ found' = ElementsPalettes(PySlice(FirstNonEmpty(dom.found), args.count))
    /\ pc' = "sel_alt"
    /\ UNCHANGED << args, palettes, ran, outVars, apiVars, html, driver, quits,
                    scrolls, dom, scanned >>

\* driver.find_elements raises in the selector loop
SelFindRaises ==
    /\ pc = "sel_scroll"
    /\ scrolls >= ScrollCycles(args.count)
    /\ pc' = AfterError
    /\ UNCHANGED << args, palettes, ran, outVars, apiVars, html, browserVars >>

\* if not palettes: false, the alternative scan is not run
SelAltSkipped ==
    /\ pc = "sel_alt"
    /\ found # <<>>
    /\ pc' = "sel_finally"
    /\ UNCHANGED << args, palettes, ran, outVars, apiVars, html, browserVars >>

\* the alternative scan; a link that raises ends it with what was appended
SelAltScan ==
    /\ pc = "sel_alt"
    /\ found = <<>>
    /\ found' = AltScan(dom.links, args.count, found).palettes
    /\ scanned' = TRUE
    /\ pc' = IF AltScan(dom.links, args.count, found).raised
             THEN AfterError ELSE "sel_finally"
    /\ UNCHANGED << args, palettes, ran, outVars, apiVars, html, driver, quits,
                    scrolls, dom >>

\* driver.find_elements(By.TAG_NAME, "a") raises
SelAltRaises ==
    /\ pc = "sel_alt"
    /\ found = <<>>
    /\ pc' = AfterError
    /\ UNCHANGED << args, palettes, ran, outVars, apiVars, html, browserVars >>

\* finally: driver.quit()
SelFinally ==
    /\ pc = "sel_finally"
    /\ driver' = "closed"
    /\ quits' = quits + 1
    /\ pc' = "sel_return"
    /\ UNCHANGED << args, palettes, ran, outVars, apiVars, html, scrolls, dom,
                    found, scanned >>

\* return palettes[:count]
SelReturn ==
    /\ pc = "sel_return"
    /\ Returned(PyList(PySlice(found, args.count)))
    /\ UNCHANGED << args, outVars, apiVars, html, browserVars >>

----------------------------------------------------------------------------
\* the fallback, the formatting and the output

FallbackUsed ==
    /\ pc = "if_fallback"
    /\ UsesFallback(palettes)
    /\ palettes' = PyList(FallbackCatalog)
    /\ pc' = "format"
    /\ UNCHANGED << args, ran, outVars, apiVars, html, browserVars >>

FallbackSkipped ==
    /\ pc = "if_fallback"
    /\ ~UsesFallback(palettes)
    /\ pc' = "format"
    /\ UNCHANGED << args, palettes, ran, outVars, apiVars, html, browserVars >>

NoThemeNames == <<>>

\* the formatter of --format applied to a palette list
Formatted(format, ps) ==
    CASE format = "android" -> format_android_xml(ps, NoThemeNames)
      [] format = "json"    -> format_json(ps)
      [] OTHER              -> format_hex(ps)

\* result = format_x(palettes[:args.count])
Format ==
    /\ pc = "format"
    /\ palettes.t = "list"
    /\ result' = [format |-> args.format,
                  lines  |-> Formatted(args.format, PySlice(palettes.v, args.count))]
    /\ pc' = "output"
    /\ UNCHANGED << args, palettes, ran, written, apiVars, html, browserVars >>

\* palettes[:args.count] raises when palettes is no sequence: the run ends
\* with a traceback and nothing is written
FormatRaises ==
    /\ pc = "format"
    /\ palettes.t # "list"
    /\ pc' = "crashed"
    /\ UNCHANGED << args, palettes, ran, outVars, apiVars, html, browserVars >>

\* the result goes to the file of --output when one is given, or to standard
\* output
Output ==
    /\ pc = "output"
    /\ \E to_file \in BOOLEAN : written' = IF to_file THEN "file" ELSE "stdout"
    /\ pc' = "done"
    /\ UNCHANGED << args, palettes, ran, result, apiVars, html, browserVars >>

Next ==
    \/ ApiSkipped \/ ApiEntered \/ ApiRequest \/ ApiExhausted
    \/ PageSkipped \/ PageRequestFails \/ PageParsed
    \/ BrowserSkipped \/ BrowserEntered
    \/ SelImportFails \/ SelImported \/ SelLaunchFails \/ SelLaunched
    \/ SelGet \/ SelGetRaises \/ SelScroll \/ SelScrollRaises
    \/ SelExtract \/ SelFindRaises
    \/ SelAltSkipped \/ SelAltScan \/ SelAltRaises
    \/ SelFinally \/ SelReturn
    \/ FallbackUsed \/ FallbackSkipped
    \/ Format \/ FormatRaises \/ Output

Spec == Init /\ [][Next]_vars

(***************************************************************************)
(* The formatters on their own: a palette list is drawn, and one of the    *)
(* three formatters is applied to it.                                      *)
(***************************************************************************)

\* the longest palette list formatted
MaxPalettes == 11

c8lower == <<"#", "8", "0">> \o hAB

c8upper == <<"#", "C", "0">> \o hDE

\* the palettes the lists are made of: canonical ones, one with lower-case
\* and 8-digit colors, one with more colors than roles, an empty one
PalettePool ==
    << PalA,
       PalLower,
       <<c8lower, HashUpper(h12), c8upper, <<"#">> \o h0f>>,
       <<HashUpper(hAB), HashUpper(hDE), HashUpper(h12), HashUpper(h0f),
         c8upper, HashUpper(hDE)>>,
       <<>> >>

\* the list of n palettes taken from the pool in turn, from its k-th on
PoolList(n, k) == [i \in 1..n |-> PalettePool[((i + k) % Len(PalettePool)) + 1]]

FormatInputs == {PoolList(n, k) : n \in 0..MaxPalettes, k \in 1..Len(PalettePool)}

FmtInit ==
    /\ args = [method |-> "auto", format |-> "hex", count |-> DefaultCount]
    /\ pc = "fmt_call"
    /\ \E ps \in FormatInputs : palettes = PyList(ps)
    /\ ran = <<>>
    /\ result = NoResult
    /\ written = "nothing"
    /\ endpoint = 1
    /\ contacted = <<>>
    /\ html = NoHtml
    /\ driver = "none"
    /\ quits = 0
    /\ scrolls = 0
    /\ dom = NoDom
    /\ found = <<>>
    /\ scanned = FALSE

FmtAndroid ==
    /\ pc = "fmt_call"
    /\ result' = [format |-> "android",
                  lines  |-> format_android_xml(palettes.v, NoThemeNames)]
    /\ pc' = "fmt_done"
    /\ UNCHANGED << args, palettes, ran, written, apiVars, html, browserVars >>

FmtJson ==
    /\ pc = "fmt_call"
    /\ result' = [format |-> "json", lines |-> format_json(palettes.v)]
    /\ pc' = "fmt_done"
    /\ UNCHANGED << args, palettes, ran, written, apiVars, html, browserVars >>

FmtHex ==
    /\ pc = "fmt_call"
    /\ result' = [format |-> "hex", lines |-> format_hex(palettes.v)]
    /\ pc' = "fmt_done"
    /\ UNCHANGED << args, palettes, ran, written, apiVars, html, browserVars >>

FmtNext == FmtAndroid \/ FmtJson \/ FmtHex

SpecFormat == FmtInit /\ [][FmtNext]_vars

(***************************************************************************)
(* Properties                                                              *)
(***************************************************************************)

StrategyOrder == <<"api", "page", "browser">>

Rank(strategy) == CHOOSE k \in 1..Len(StrategyOrder) : StrategyOrder[k] = strategy

HasRun(strategy) == \E i \in 1..Len(ran) : ran[i].s = strategy

\* the strategies are over: main stands at the fallback test or later
StrategiesOver == pc \in {"if_fallback", "format", "output", "done", "crashed"}

\* main stands at the formatting step or later
AtFormatter == pc \in {"format", "output", "done", "crashed"}

\* the places of the strategies that left a non-empty result
NonEmptyRuns == {i \in 1..Len(ran) : Truthy(ran[i].res)}

\* what palettes held when the browser test was made: what the last of the
\* API and page-data strategies left, or the initial empty list
BeforeBrowser ==
    LET earlier == {i \in 1..Len(ran) : ran[i].s # "browser"}
    IN  IF earlier = {} THEN PyList(<<>>)
        ELSE ran[CHOOSE i \in earlier : \A j \in earlier : j <= i].res

\* C1: in one run, the strategies run in the order API, page-data, browser;
\* the API strategy runs only under api or auto, and always then; the
\* page-data strategy runs only under auto and after an empty API result; the
\* browser strategy runs exactly when palettes is still empty at its test or
\* the method is selenium; nothing runs after a non-empty result, except the
\* browser under selenium; the formatter is handed the palettes of the first
\* strategy that returned a non-empty result.
C1_StrategyOrder ==
    /\ \A i, j \in 1..Len(ran) : i < j => Rank(ran[i].s) < Rank(ran[j].s)
    /\ HasRun("api") => args.method \in {"api", "auto"}
    /\ (pc # "if_api" /\ pc # "api" /\ args.method \in {"api", "auto"}) => HasRun("api")
    /\ \A j \in 1..Len(ran) :
          ran[j].s = "page" =>
             /\ args.method = "auto"
             /\ j = 2 /\ ran[1].s = "api" /\ ~Truthy(ran[1].res)
    /\ StrategiesOver =>
          (HasRun("browser") <=> (~Truthy(BeforeBrowser) \/ args.method = "selenium"))
    /\ \A i, j \in 1..Len(ran) :
          (i < j /\ Truthy(ran[i].res)) =>
             (ran[j].s = "browser" /\ args.method = "selenium")
    /\ (AtFormatter /\ NonEmptyRuns # {}) => palettes = ran[MinOf(NonEmptyRuns)].res

\* a run under auto in which the API gave nothing, the page data gave palettes
\* and the browser was therefore not started
C1_Witness ==
    /\ pc = "done"
    /\ Len(ran) = 2
    /\ ran[1].s = "api" /\ ~Truthy(ran[1].res)
    /\ ran[2].s = "page" /\ Truthy(ran[2].res)

\* every strategy that ran left palettes empty
AllEmpty == \A i \in 1..Len(ran) : ~Truthy(ran[i].res)

\* the catalog cut as palettes[:count] cuts it
CatalogShown ==
    LET k == Len(FallbackCatalog)
        n == IF args.count >= 0
             THEN (IF args.count < k THEN args.count ELSE k)
             ELSE (IF k + args.count > 0 THEN k + args.count ELSE 0)
    IN  SubSeq(FallbackCatalog, 1, n)

\* C2 as stated: when every strategy that ran returned empty, the output is
\* the chosen formatter applied to the fixed 10-entry fallback catalog.
C2_FallbackWhole ==
    (pc = "done" /\ AllEmpty) =>
        result = [format |-> args.format,
                  lines  |-> Formatted(args.format, FallbackCatalog)]

\* C2 amended: when every strategy that ran returned empty, the output is the
\* chosen formatter applied to the 10-entry fallback catalog cut to --count
\* as palettes[:count] cuts it: its first min(count, 10) entries for a count
\* of 0 or more, all but its last -count entries for a negative count.
C2_FallbackCut ==
    /\ Len(FallbackCatalog) = 10
    /\ (pc = "done" /\ AllEmpty) =>
          result = [format |-> args.format,
                    lines  |-> Formatted(args.format, CatalogShown)]

\* a run in which the API, the page data and the browser all gave nothing and
\* the Android output was made from the first two catalog entries
C2_Witness ==
    /\ pc = "done"
    /\ AllEmpty
    /\ Len(ran) = 3
    /\ args.format = "android"
    /\ args.count = 2
    /\ Len(result.lines) > 5

\* C3: no outcome of an extraction strategy ends the run before output is
\* produced: a run never ends in a traceback.
C3_AlwaysOutput == pc # "crashed"

\* '#' followed by exactly six upper-case hexadecimal digits
IsCanonical(color) ==
    /\ Len(color) = HexLen + 1
    /\ color[1] = "#"
    /\ \A k \in 2..(HexLen + 1) : color[k] \in DigitChars \cup UpperHexLetters

AllCanonical(ps) ==
    \A i \in 1..Len(ps) : \A j \in 1..Len(ps[i]) : IsCanonical(ps[i][j])

\* C4: every color of every palette an extraction path returns is '#'
\* followed by exactly six upper-case hexadecimal digits.
C4_ColorsCanonical ==
    /\ \A i \in 1..Len(ran) : ran[i].res.t = "list" => AllCanonical(ran[i].res.v)
    /\ AllCanonical(found)

\* the palettes the formatter is given: palettes[:count]
Shown ==
    LET k == Len(palettes.v)
        n == IF args.count >= 0
             THEN (IF args.count < k THEN args.count ELSE k)
             ELSE (IF k + args.count > 0 THEN k + args.count ELSE 0)
    IN  SubSeq(palettes.v, 1, n)

\* the number of palettes in the output: the palettes of the JSON document,
\* the lines of the hex text, the <!-- Palette --> comments of the XML
OutputCount ==
    IF result.format = "android"
    THEN Len(SelectSeq(result.lines, LAMBDA l : l.kind = "comment"))
    ELSE Len(result.lines)

MinInt(a, b) == IF a < b THEN a ELSE b

\* C5 as stated: for any --count N and any list of k palettes, the output
\* holds exactly min(N, k) palettes.
C5_CountMin ==
    pc = "done" => OutputCount = MinInt(args.count, Len(palettes.v))

\* C5 amended: for a --count N of 0 or more and a list of k palettes, the
\* output holds exactly the first min(N, k) palettes in discovery order; for
\* a negative N it holds the first max(k + N, 0) palettes (all but the last
\* -N).  In hex format the output has that many lines and line i (0-based)
\* is 'Palette {i+1}: ' followed by the colors of the i-th palette, joined
\* by blanks.
C5_CountSlice ==
    pc = "done" =>
        /\ args.count >= 0 => OutputCount = MinInt(args.count, Len(palettes.v))
        /\ args.count < 0 =>
              OutputCount = Len(palettes.v) - MinInt(0 - args.count, Len(palettes.v))
        /\ result.format = "json" => result.lines = Shown
        /\ result.format = "android" =>
              result.lines = format_android_xml(Shown, NoThemeNames)
        /\ result.format = "hex" =>
              /\ Len(result.lines) = Len(Shown)
              /\ \A i \in 1..Len(Shown) :
                    result.lines[i] =
                        PaletteWord \o DecimalOf(i) \o <<":", " ">>
                        \o Join(palettes.v[i], <<" ">>)

\* a run whose API strategy found three palettes, with --count 2 and hex output
C5_Witness ==
    /\ pc = "done"
    /\ args.count = 2
    /\ args.format = "hex"
    /\ Len(palettes.v) = 3
    /\ Len(result.lines) = 2

\* the number of places of ps that hold p
Occurrences(p, ps) == Cardinality({i \in 1..Len(ps) : ps[i] = p})

\* the run's page-data result, when parse_page_data was called
PageResult == ran[Len(ran)].res.v

PageParsedLast ==
    /\ ran # <<>>
    /\ ran[Len(ran)].s = "page"
    /\ ran[Len(ran)].res.t = "list"
    /\ ran[Len(ran)].res.v = parse_page_data(html)

\* the palettes of the links the alternative scan reads
LinkPalettes ==
    LET hits == SelectSeq(dom.links, LAMBDA l : ~l.stale /\ StrictSearch(l.href) # <<>>)
    IN  {HashUpperAll(Split(StrictSearch(hits[i].href), "-")) : i \in 1..Len(hits)}

\* C6 as stated: the list a link scan returns holds each link-scanned color
\* sequence at most once, in parse_page_data and in the alternative scan.
C6_ScannedOnce ==
    /\ PageParsedLast =>
          \A i \in 1..Len(UrlPalettes(html.text)) :
              Occurrences(UrlPalettes(html.text)[i], PageResult) <= 1
    /\ scanned => \A p \in LinkPalettes : Occurrences(p, found) <= 1

\* C6 amended: a link scan appends a palette only when its color sequence is
\* not yet in the result list.  So the list parse_page_data returns is the
\* blob's palettes as they are, followed by palettes of scanned URLs none of
\* which equals an entry before it, and it holds every scanned URL's palette;
\* the alternative scan of fetch_with_selenium leaves a list with no color
\* sequence twice.  (A sequence the decoded blob lists twice stays twice.)
C6_ScanAppendsNew ==
    /\ PageParsedLast =>
          LET b == BlobPalettes(html.blob)
              r == PageResult
          IN  /\ Len(b) <= Len(r)
              /\ SubSeq(r, 1, Len(b)) = b
              /\ \A j \in (Len(b) + 1)..Len(r) :
                    /\ \A i \in 1..(j - 1) : r[i] # r[j]
                    /\ InList(r[j], UrlPalettes(html.text))
              /\ \A i \in 1..Len(UrlPalettes(html.text)) :
                    InList(UrlPalettes(html.text)[i], r)
    /\ scanned =>
          /\ \A i, j \in 1..Len(found) : i < j => found[i] # found[j]
          /\ \A i \in 1..Len(found) : found[i] \in LinkPalettes

\* a page whose text names the same palette twice (once in lower case), of
\* which parse_page_data kept one
C6_Witness ==
    /\ PageParsedLast
    /\ html.blob.t = "invalid"
    /\ Len(UrlPalettes(html.text)) = 3
    /\ UrlPalettes(html.text)[1] = UrlPalettes(html.text)[3]
    /\ Len(PageResult) = 2

\* the browser strategy has returned
BrowserReturned == HasRun("browser")

BrowserResult == ran[Len(ran)].res

\* C7: when a browser session was started it is ended by exactly one
\* driver.quit(), before fetch_with_selenium returns, on every path out of
\* it; when the browser cannot be launched there is no session and the
\* function returns an empty list.
C7_SessionClosed ==
    /\ quits <= 1
    /\ (quits = 1) <=> (driver = "closed")
    /\ pc = "sel_return" => driver = "closed"
    /\ driver = "open" => pc \in {"sel_get", "sel_scroll", "sel_alt", "sel_finally"}
    /\ BrowserReturned =>
          /\ driver \in {"none", "closed"}
          /\ driver = "none" => (quits = 0 /\ BrowserResult = PyList(<<>>))

\* a session in which the first scroll (or the page load) raised: the
\* function stands at its return with the session ended
C7_Witness ==
    /\ pc = "sel_return"
    /\ scrolls = 0
    /\ ScrollCycles(args.count) > 0
    /\ driver = "closed"
    /\ quits = 1

\* fetch_from_api has returned
ApiReturned == HasRun("api")

\* C8: fetch_from_api requests its endpoints in the listed order; it returns
\* the data of the first endpoint that answers 200 with a body that parses,
\* and requests no endpoint after it; an endpoint that raises, answers
\* another status or does not parse is passed over; when no endpoint
\* succeeds, all were requested and the function returns an empty list; the
\* function always returns to main.
C8_EndpointsInOrder ==
    /\ Len(contacted) <= Len(Endpoints)
    /\ \A i \in 1..Len(contacted) : contacted[i].at = Endpoints[i]
    /\ \A i \in 1..(Len(contacted) - 1) : contacted[i].kind # "ok"
    /\ (pc # "api" /\ contacted # <<>>) => ApiReturned
    /\ ApiReturned =>
          IF contacted[Len(contacted)].kind = "ok"
          THEN ran[1].res = contacted[Len(contacted)].body
          ELSE /\ Len(contacted) = Len(Endpoints)
               /\ ran[1].res = PyList(<<>>)

\* the first endpoint raised and the second one's data was returned
C8_Witness ==
    /\ ApiReturned
    /\ Len(contacted) = 2
    /\ contacted[1].kind = "raises"
    /\ contacted[2].kind = "ok"
    /\ Truthy(ran[1].res)
    /\ ran[1].res = contacted[2].body

\* the <color> lines of an Android result, each as <<name, value>>
ColorEntries ==
    LET cs == SelectSeq(result.lines, LAMBDA l : l.kind = "color")
    IN  [k \in 1..Len(cs) |-> <<cs[k].name, cs[k].value>>]

AndroidDone == pc = "fmt_done" /\ result.format = "android"

ThemeLetters == <<"a", "b", "c", "d", "e", "f", "g", "h", "i", "j">>

\* 'theme_a' .. 'theme_j', in turn: the name of palette i (1-based)
ThemePrefix(i) ==
    <<"t", "h", "e", "m", "e", "_">>
    \o <<ThemeLetters[((i - 1) % Len(ThemeLetters)) + 1]>> \o <<"_">>

\* the hex digits of a color: the color without its '#'
HexDigitsOf(color) == SelectSeq(color, LAMBDA ch : ch # "#")

\* the value the claim gives a color: 'FF' prepended to 6 digits, 8 digits
\* left as they are
ValueAsStated(color) ==
    IF Len(HexDigitsOf(color)) = 6 THEN <<"#", "F", "F">> \o HexDigitsOf(color)
    ELSE <<"#">> \o HexDigitsOf(color)

\* the same on the upper-cased color
ValueUpper(color) == ValueAsStated(Upper(color))

\* the (palette, color) pairs of the first five colors of each palette from
\* the i-th on, in palette order then color order, each as <<i, j>>
RECURSIVE PairsFrom(_, _)
PairsFrom(ps, i) ==
    IF i > Len(ps) THEN <<>>
    ELSE [j \in 1..MinInt(Len(ps[i]), 5) |-> <<i, j>>] \o PairsFrom(ps, i + 1)

Pairs(ps) == PairsFrom(ps, 1)

\* C9 as stated: one color entry per (palette, color) pair over the first 5
\* colors of each palette, in order, named '<theme_i>_<role_j>', its value
\* the color with 'FF' prepended when it has 6 hex digits and the color
\* unchanged when it has 8.
C9_EntriesAsStated ==
    AndroidDone =>
        LET ps == palettes.v
            pairs == Pairs(ps)
        IN  ColorEntries =
                [k \in 1..Len(pairs) |->
                    << ThemePrefix(pairs[k][1]) \o ColorRoles[pairs[k][2]],
                       ValueAsStated(ps[pairs[k][1]][pairs[k][2]]) >>]

\* C9 amended: one color entry per (palette, color) pair over the first 5
\* colors of each palette, in palette order then color order, and no other;
\* the entry of color j of palette i is named '<theme_i>_<role_j>', and its
\* value is the color in upper case, with 'FF' prepended when it has 6 hex
\* digits and nothing prepended when it has 8.
C9_EntriesUpper ==
    AndroidDone =>
        LET ps == palettes.v
            pairs == Pairs(ps)
        IN  ColorEntries =
                [k \in 1..Len(pairs) |->
                    << ThemePrefix(pairs[k][1]) \o ColorRoles[pairs[k][2]],
                       ValueUpper(ps[pairs[k][1]][pairs[k][2]]) >>]

\* an Android result for a list with a palette of more than five colors, a
\* lower-case 8-digit color and a 6-digit color
C9_Witness ==
    /\ AndroidDone
    /\ \E i \in 1..Len(palettes.v) : Len(palettes.v[i]) > 5
    /\ \E i \in 1..Len(palettes.v) : InList(c8lower, palettes.v[i])
    /\ \E k \in 1..Len(ColorEntries) :
          ColorEntries[k][2] = <<"#", "8", "0">> \o Upper(hAB)
    /\ \E k \in 1..Len(ColorEntries) :
          ColorEntries[k][2] = <<"#", "F", "F">> \o Upper(h12)

\* C10 as stated: for a palette list of any length, no two color entries of
\* the Android output have the same name.
C10_NamesUnique ==
    AndroidDone =>
        \A a, b \in 1..Len(ColorEntries) :
            a # b => ColorEntries[a][1] # ColorEntries[b][1]

\* C10 amended: for a palette list of at most 10 palettes (the number of
\* default theme names), no two color entries of the Android output have the
\* same name; for any list, two entries have the same name exactly when they
\* are for the same color position of palettes a multiple of 10 apart.
C10_NamesUniqueUpToTen ==
    AndroidDone =>
        LET pairs == Pairs(palettes.v)
        IN  /\ Len(ColorEntries) = Len(pairs)
            /\ Len(palettes.v) <= Len(DefaultNames) =>
                  \A a, b \in 1..Len(ColorEntries) :
                      a # b => ColorEntries[a][1] # ColorEntries[b][1]
            /\ \A a, b \in 1..Len(ColorEntries) :
                  (ColorEntries[a][1] = ColorEntries[b][1]) <=>
                      /\ pairs[a][2] = pairs[b][2]
                      /\ pairs[a][1] % Len(DefaultNames) = pairs[b][1] % Len(DefaultNames)

\* an Android result for ten palettes, each with colors
C10_Witness ==
    /\ AndroidDone
    /\ Len(palettes.v) = Len(DefaultNames)
    /\ Len(ColorEntries) >= 2 * Len(DefaultNames)

=============================================================================
